---- MODULE Spec2Model ----
(***************************************************************************)
(* Model of pdfmind/processor.py: the sentence-aware chunker               *)
(* PDFProcessor.split_text_smart, stepped statement by statement, and the  *)
(* pipeline process_pdf_and_store_in_chroma with its collaborators (PDF    *)
(* reader, embedding model, vector-store collection).                      *)
(*                                                                         *)
(* A Python str is a sequence of one-character strings.  Python indices    *)
(* are 0-based, sequences here are 1-based: Python's initial_chunks[i] is  *)
(* initial_chunks[i + 1] below.                                            *)
(***************************************************************************)
EXTENDS Integers, Sequences, FiniteSets, TLC

\* ------------------------------------------------------------------ bounds
MaxLen == 6
MaxChunk == 4
MaxOverlap == 3

\* characters the input text of the chunker is drawn from
Alphabet == {"a", ".", " ", "\n"}

\* ------------------------------------------------------- string primitives
\* whitespace removed by str.strip()
WS == {" ", "\n", "\t", "\r"}

\* the lookbehind class [.!?] of the sentence-boundary pattern
Punct == {".", "!", "?"}

Min(a, b) == IF a <= b THEN a ELSE b

Max(a, b) == IF a >= b THEN a ELSE b

RECURSIVE LStrip(_)
LStrip(s) == IF s = <<>> \/ Head(s) \notin WS THEN s ELSE LStrip(Tail(s))

RECURSIVE RStrip(_)
RStrip(s) ==
    IF s = <<>> \/ s[Len(s)] \notin WS THEN s
    ELSE RStrip(SubSeq(s, 1, Len(s) - 1))

\* str.strip()
Strip(s) == RStrip(LStrip(s))

\* str.startswith(prefix)
StartsWith(s, prefix) ==
    /\ Len(prefix) <= Len(s)
    /\ SubSeq(s, 1, Len(prefix)) = prefix

\* Python s[-k:] for k >= 0.  -0 is 0, so s[-0:] is s[0:], the whole string;
\* for k > 0 the start index len(s) - k is clamped at 0.
NegSlice(s, k) ==
    IF k = 0 THEN s
    ELSE SubSeq(s, Max(Len(s) - k, 0) + 1, Len(s))

\* re.split(r'(?<=[.!?]) +', s): a match starts at a space whose predecessor
\* is in [.!?] and greedily takes the whole run of spaces; the pieces between
\* the matches are returned, the matched spaces are dropped.
RECURSIVE ReSplit(_)
ReSplit(s) ==
    LET M == {i \in 2..Len(s) : s[i - 1] \in Punct /\ s[i] = " "}
    IN  IF M = {} THEN <<s>>
        ELSE LET m == CHOOSE i \in M : \A j \in M : i <= j
                 e == CHOOSE j \in (m + 1)..(Len(s) + 1) :
                          /\ \A k \in m..(j - 1) : s[k] = " "
                          /\ (j = Len(s) + 1 \/ s[j] # " ")
             IN  <<SubSeq(s, 1, m - 1)>> \o ReSplit(SubSeq(s, e, Len(s)))

\* ------------------------------------------------------ split_text_smart
\* the estimate without the charge for the joining space
EstimatedLengthNoSeparator(cur, sentence) == Len(cur) + Len(sentence)

\* estimated_length = len(current_chunk) + len(sentence) + 1
EstimatedLength(cur, sentence) == Len(cur) + Len(sentence) + 1

\* current_chunk += (" " if current_chunk else "") + sentence
Join(cur, sentence) ==
    cur \o (IF cur # <<>> THEN <<" ">> ELSE <<>>) \o sentence

\* if current_chunk: initial_chunks.append(current_chunk.strip())
Flush(chunks, cur) ==
    IF cur # <<>> THEN Append(chunks, Strip(cur)) ELSE chunks

\* slicing that stops at the last full-width slice
SlicesWholeOnly(sentence, cs) ==
    [k \in 1..(Len(sentence) \div cs) |->
        Strip(SubSeq(sentence, (k - 1) * cs + 1, k * cs))]

\* [sentence[i:i + chunk_size].strip() for i in range(0, len(sentence), chunk_size)]
Slices(sentence, cs) ==
    [k \in 1..((Len(sentence) + cs - 1) \div cs) |->
        Strip(SubSeq(sentence, (k - 1) * cs + 1, Min(k * cs, Len(sentence))))]

\* one iteration of the "Add overlaps" loop, for the chunk at 1-based index i
StitchOne(initial, i, ov) ==
    IF i > 1
    THEN LET overlap_text == Strip(NegSlice(initial[i - 1], ov))
         IN  IF ~StartsWith(initial[i], overlap_text)
             THEN Strip(overlap_text \o <<" ">> \o initial[i])
             ELSE Strip(initial[i])
    ELSE Strip(initial[i])

\* one iteration of the packing loop as a function of (current_chunk,
\* initial_chunks); used where the chunker is called as a whole
PackStep(st, sentence, cs) ==
    IF EstimatedLength(st.cur, sentence) <= cs
    THEN [cur |-> Join(st.cur, sentence), chunks |-> st.chunks]
    ELSE IF Len(sentence) > cs
         THEN [cur |-> <<>>,
               chunks |-> Flush(st.chunks, st.cur) \o Slices(sentence, cs)]
         ELSE [cur |-> sentence, chunks |-> Flush(st.chunks, st.cur)]

RECURSIVE PackAll(_, _, _, _)
PackAll(st, sents, k, cs) ==
    IF k > Len(sents) THEN st
    ELSE PackAll(PackStep(st, sents[k], cs), sents, k + 1, cs)

\* split_text_smart(text, chunk_size, overlap) as a whole
SplitTextSmart(t, cs, ov) ==
    IF t = <<>> THEN <<>>
    ELSE LET st == PackAll([cur |-> <<>>, chunks |-> <<>>],
                           ReSplit(Strip(t)), 1, cs)
             initial == Flush(st.chunks, st.cur)
         IN  [i \in 1..Len(initial) |-> StitchOne(initial, i, ov)]

\* ------------------------------------------------- pipeline collaborators
\* defaults of generate_embeddings, used by process_pdf_and_store_in_chroma
DefaultChunkSize == 500

DefaultOverlap == 50

Rep(c, n) == [k \in 1..n |-> c]

\* page texts the PDF reader can return: two sentences separated by ". ",
\* and one unbroken run longer than half a chunk
PageSentences ==
    Rep("a", 199) \o <<".", " ">> \o Rep("a", 199) \o <<".">>

PageRun == Rep("a", 400)

PageTexts == {PageSentences, PageRun}

DigitChars == <<"0", "1", "2", "3", "4", "5", "6", "7", "8", "9">>

\* str(n) of a non-negative integer, as the f-string formats it
RECURSIVE ToDecimal(_)
ToDecimal(n) ==
    IF n < 10 THEN <<DigitChars[n + 1]>>
    ELSE ToDecimal(n \div 10) \o <<DigitChars[(n % 10) + 1]>>

\* ids numbered from 1
ChunkIdsFromOne(n) ==
    [k \in 1..n |-> <<"c", "h", "u", "n", "k", "_">> \o ToDecimal(k)]

\* ids = [f"chunk_{i}" for i in range(len(processor.chunks))]
ChunkIds(n) ==
    [k \in 1..n |-> <<"c", "h", "u", "n", "k", "_">> \o ToDecimal(k - 1)]

\* model.encode(chunks): one fixed-dimension vector per chunk, in order, a
\* deterministic function of the chunk's text
Embed(chunk) ==
    <<Len(chunk),
      Cardinality({k \in DOMAIN chunk : chunk[k] = " "}),
      Cardinality({k \in DOMAIN chunk : chunk[k] \in Punct})>>

Encode(chunks) == [k \in 1..Len(chunks) |-> Embed(chunks[k])]

\* a write that adds the record whether or not its id is present
UpsertOneAdd(col, rec) == Append(col, rec)

\* the collection is a list of records; upsert of one record replaces the
\* record with the same id or, when there is none, adds the record
UpsertOne(col, rec) ==
    IF \E j \in DOMAIN col : col[j].id = rec.id
    THEN [j \in DOMAIN col |-> IF col[j].id = rec.id THEN rec ELSE col[j]]
    ELSE Append(col, rec)

RECURSIVE UpsertFrom(_, _, _, _, _, _)
UpsertFrom(col, ids, embs, docs, k, n) ==
    IF k > n THEN col
    ELSE UpsertFrom(
             UpsertOne(col, [id |-> ids[k], embedding |-> embs[k], document |-> docs[k]]),
             ids, embs, docs, k + 1, n)

\* a write that empties the collection first
UpsertReplacingAll(col, ids, embs, docs) ==
    UpsertFrom(<<>>, ids, embs, docs, 1, Len(ids))

\* collection.upsert(ids=ids, embeddings=embeddings, documents=documents)
Upsert(col, ids, embs, docs) == UpsertFrom(col, ids, embs, docs, 1, Len(ids))

\* ------------------------------------------------------------------ state
VARIABLES
    text, chunk_size, overlap,     \* arguments of split_text_smart
    sentences, idx,                \* the sentence list and the loop position
    current_chunk, initial_chunks, \* locals of the packing pass
    final_chunks, i,               \* locals of the stitching pass
    pc                             \* position inside split_text_smart

chunkerVars == <<text, chunk_size, overlap, sentences, idx, current_chunk,
                 initial_chunks, final_chunks, i, pc>>

VARIABLES
    pdf,             \* pages of the document at pdf_path, as the reader yields them
    run,             \* number of the current call of process_pdf_and_store_in_chroma
    stage,           \* position inside the call
    pageIdx,         \* position of the loop in extract_text
    self_text, self_chunks, self_embeddings,   \* fields of the PDFProcessor
    ids,             \* local ids of the call
    store,           \* the persistent collection
    result,          \* what the call returned
    reported,        \* the count printed on success, -1 when nothing was printed
    failedAt,        \* stage in which the exception was raised, "none" if none
    storeAtStart,    \* the collection as it was when the call began
    prevDoneDoc      \* <<document>> of the previous call if that call returned
                     \* a processor/collection pair, <<>> otherwise

pipelineVars == <<pdf, run, stage, pageIdx, self_text, self_chunks,
                  self_embeddings, ids, store, result, reported, failedAt,
                  storeAtStart, prevDoneDoc>>

vars == <<chunkerVars, pipelineVars>>

\* the pipeline before any call: nothing read, nothing stored
PipelineIdle ==
    /\ pdf = <<>>
    /\ run = 1
    /\ stage = "Idle"
    /\ pageIdx = 1
    /\ self_text = <<>>
    /\ self_chunks = <<>>
    /\ self_embeddings = <<>>
    /\ ids = <<>>
    /\ store = <<>>
    /\ result = "pending"
    /\ reported = -1
    /\ failedAt = "none"
    /\ storeAtStart = <<>>
    /\ prevDoneDoc = <<>>

\* the chunker before any call
ChunkerIdle ==
    /\ text = <<>>
    /\ chunk_size = DefaultChunkSize
    /\ overlap = DefaultOverlap
    /\ sentences = <<>>
    /\ idx = 1
    /\ current_chunk = <<>>
    /\ initial_chunks = <<>>
    /\ final_chunks = <<>>
    /\ i = 1
    /\ pc = "start"

Texts == UNION {[1..n -> Alphabet] : n \in 0..MaxLen}

InitSplit ==
    /\ text \in Texts
    /\ chunk_size \in 1..MaxChunk
    /\ overlap \in 0..MaxOverlap
    /\ sentences = <<>>
    /\ idx = 1
    /\ current_chunk = <<>>
    /\ initial_chunks = <<>>
    /\ final_chunks = <<>>
    /\ i = 1
    /\ pc = "start"
    /\ PipelineIdle

\* if not text: return []
ReturnEmpty ==
    /\ pc = "start"
    /\ text = <<>>
    /\ pc' = "done"
    /\ UNCHANGED pipelineVars
    /\ UNCHANGED <<text, chunk_size, overlap, sentences, idx, current_chunk,
                   initial_chunks, final_chunks, i>>

\* sentences = re.split(..., text.strip()); initial_chunks = []; current_chunk = ""
SplitSentences ==
    /\ pc = "start"
    /\ text # <<>>
    /\ sentences' = ReSplit(Strip(text))
    /\ initial_chunks' = <<>>
    /\ current_chunk' = <<>>
    /\ idx' = 1
    /\ pc' = "pack"
    /\ UNCHANGED pipelineVars
    /\ UNCHANGED <<text, chunk_size, overlap, final_chunks, i>>

\* loop body, branch estimated_length <= chunk_size
PackAppend ==
    /\ pc = "pack"
    /\ idx <= Len(sentences)
    /\ EstimatedLength(current_chunk, sentences[idx]) <= chunk_size
    /\ current_chunk' = Join(current_chunk, sentences[idx])
    /\ idx' = idx + 1
    /\ UNCHANGED pipelineVars
    /\ UNCHANGED <<text, chunk_size, overlap, sentences, initial_chunks,
                   final_chunks, i, pc>>

\* the slicing branch taken from len(sentence) >= chunk_size on
PackSliceAtOrAbove ==
    /\ pc = "pack"
    /\ idx <= Len(sentences)
    /\ ~(EstimatedLength(current_chunk, sentences[idx]) <= chunk_size)
    /\ Len(sentences[idx]) >= chunk_size
    /\ initial_chunks' =
           Flush(initial_chunks, current_chunk) \o Slices(sentences[idx], chunk_size)
    /\ current_chunk' = <<>>
    /\ idx' = idx + 1
    /\ UNCHANGED pipelineVars
    /\ UNCHANGED <<text, chunk_size, overlap, sentences, final_chunks, i, pc>>

\* loop body, else branch with len(sentence) > chunk_size
PackSlice ==
    /\ pc = "pack"
    /\ idx <= Len(sentences)
    /\ ~(EstimatedLength(current_chunk, sentences[idx]) <= chunk_size)
    /\ Len(sentences[idx]) > chunk_size
    /\ initial_chunks' =
           Flush(initial_chunks, current_chunk) \o Slices(sentences[idx], chunk_size)
    /\ current_chunk' = <<>>
    /\ idx' = idx + 1
    /\ UNCHANGED pipelineVars
    /\ UNCHANGED <<text, chunk_size, overlap, sentences, final_chunks, i, pc>>

\* loop body, else branch with len(sentence) <= chunk_size
PackNew ==
    /\ pc = "pack"
    /\ idx <= Len(sentences)
    /\ ~(EstimatedLength(current_chunk, sentences[idx]) <= chunk_size)
    /\ ~(Len(sentences[idx]) > chunk_size)
    /\ initial_chunks' = Flush(initial_chunks, current_chunk)
    /\ current_chunk' = sentences[idx]
    /\ idx' = idx + 1
    /\ UNCHANGED pipelineVars
    /\ UNCHANGED <<text, chunk_size, overlap, sentences, final_chunks, i, pc>>

\* after the loop: if current_chunk: initial_chunks.append(current_chunk.strip());
\* final_chunks = []
FinalFlush ==
    /\ pc = "pack"
    /\ idx > Len(sentences)
    /\ initial_chunks' = Flush(initial_chunks, current_chunk)
    /\ final_chunks' = <<>>
    /\ i' = 1
    /\ pc' = "stitch"
    /\ UNCHANGED pipelineVars
    /\ UNCHANGED <<text, chunk_size, overlap, sentences, idx, current_chunk>>

\* one iteration of: for i, chunk in enumerate(initial_chunks)
StitchChunk ==
    /\ pc = "stitch"
    /\ i <= Len(initial_chunks)
    /\ final_chunks' = Append(final_chunks, StitchOne(initial_chunks, i, overlap))
    /\ i' = i + 1
    /\ UNCHANGED pipelineVars
    /\ UNCHANGED <<text, chunk_size, overlap, sentences, idx, current_chunk,
                   initial_chunks, pc>>

\* return final_chunks
ReturnChunks ==
    /\ pc = "stitch"
    /\ i > Len(initial_chunks)
    /\ pc' = "done"
    /\ UNCHANGED pipelineVars
    /\ UNCHANGED <<text, chunk_size, overlap, sentences, idx, current_chunk,
                   initial_chunks, final_chunks, i>>

NextSplit ==
    \/ ReturnEmpty
    \/ SplitSentences
    \/ PackAppend
    \/ PackSlice
    \/ PackNew
    \/ FinalFlush
    \/ StitchChunk
    \/ ReturnChunks

SpecSplit == InitSplit /\ [][NextSplit]_vars


\* ------------------------------------------- process_pdf_and_store_in_chroma
MaxPages == 2
MaxRuns == 2

\* the documents a call can be given: one to MaxPages pages
Docs == UNION {[1..n -> PageTexts] : n \in 1..MaxPages}

Init ==
    /\ ChunkerIdle
    /\ pdf \in Docs
    /\ run = 1
    /\ stage = "Idle"
    /\ pageIdx = 1
    /\ self_text = <<>>
    /\ self_chunks = <<>>
    /\ self_embeddings = <<>>
    /\ ids = <<>>
    /\ store = <<>>
    /\ result = "pending"
    /\ reported = -1
    /\ failedAt = "none"
    /\ storeAtStart = <<>>
    /\ prevDoneDoc = <<>>

\* processor = PDFProcessor(pdf_path); generate_embeddings() enters
\* extract_text(): self.text = ""
OpenPdf ==
    /\ stage = "Idle"
    /\ self_text' = <<>>
    /\ self_chunks' = <<>>
    /\ self_embeddings' = <<>>
    /\ pageIdx' = 1
    /\ stage' = "Extracting"
    /\ UNCHANGED <<pdf, run, ids, store, result, reported, failedAt,
                   storeAtStart, prevDoneDoc>>
    /\ UNCHANGED chunkerVars

\* for page in self.reader.pages: self.text += page.extract_text() + "\n"
ExtractPage ==
    /\ stage = "Extracting"
    /\ pageIdx <= Len(pdf)
    /\ self_text' = self_text \o pdf[pageIdx] \o <<"\n">>
    /\ pageIdx' = pageIdx + 1
    /\ UNCHANGED <<pdf, run, stage, self_chunks, self_embeddings, ids, store,
                   result, reported, failedAt, storeAtStart, prevDoneDoc>>
    /\ UNCHANGED chunkerVars

\* return self.text
ExtractDone ==
    /\ stage = "Extracting"
    /\ pageIdx > Len(pdf)
    /\ stage' = "Chunking"
    /\ UNCHANGED <<pdf, run, pageIdx, self_text, self_chunks, self_embeddings,
                   ids, store, result, reported, failedAt, storeAtStart,
                   prevDoneDoc>>
    /\ UNCHANGED chunkerVars

\* self.chunks = self.split_text_smart(text, chunk_size, overlap)
SplitChunks ==
    /\ stage = "Chunking"
    /\ self_chunks' = SplitTextSmart(self_text, DefaultChunkSize, DefaultOverlap)
    /\ stage' = "Embedding"
    /\ UNCHANGED <<pdf, run, pageIdx, self_text, self_embeddings, ids, store,
                   result, reported, failedAt, storeAtStart, prevDoneDoc>>
    /\ UNCHANGED chunkerVars

\* model = SentenceTransformer(model_name);
\* self.embeddings = model.encode(self.chunks); return self.embeddings
EncodeChunks ==
    /\ stage = "Embedding"
    /\ self_embeddings' = Encode(self_chunks)
    /\ stage' = "Storing"
    /\ UNCHANGED <<pdf, run, pageIdx, self_text, self_chunks, ids, store,
                   result, reported, failedAt, storeAtStart, prevDoneDoc>>
    /\ UNCHANGED chunkerVars

\* client, collection, ids, collection.upsert(...), the "Stored n chunks"
\* message and return processor, collection
StoreChunks ==
    /\ stage = "Storing"
    /\ ids' = ChunkIds(Len(self_chunks))
    /\ store' = Upsert(store, ids', self_embeddings, self_chunks)
    /\ reported' = Len(self_chunks)
    /\ result' = "ProcessorCollection"
    /\ stage' = "Done"
    /\ UNCHANGED <<pdf, run, pageIdx, self_text, self_chunks, self_embeddings,
                   failedAt, storeAtStart, prevDoneDoc>>
    /\ UNCHANGED chunkerVars

\* the exception is logged and the call carries on with the next stage
FailContinues ==
    /\ stage \in {"Extracting", "Chunking", "Embedding"}
    /\ failedAt' = stage
    /\ stage' = (CASE stage = "Extracting" -> "Chunking"
                   [] stage = "Chunking" -> "Embedding"
                   [] stage = "Embedding" -> "Storing")
    /\ UNCHANGED <<pdf, run, pageIdx, self_text, self_chunks, self_embeddings,
                   ids, store, result, reported, storeAtStart, prevDoneDoc>>
    /\ UNCHANGED chunkerVars

\* no handler around the stages: the exception reaches the caller
FailPropagates ==
    /\ stage \in {"Idle", "Extracting", "Chunking", "Embedding"}
    /\ failedAt' = stage
    /\ stage' = "Failed"
    /\ result' = "raised"
    /\ UNCHANGED <<pdf, run, pageIdx, self_text, self_chunks, self_embeddings,
                   ids, store, reported, storeAtStart, prevDoneDoc>>
    /\ UNCHANGED chunkerVars

\* an exception raised while opening the PDF, extracting a page, chunking or
\* embedding: except Exception as e: print(...); return None, None
Fail ==
    /\ stage \in {"Idle", "Extracting", "Chunking", "Embedding"}
    /\ failedAt' = stage
    /\ stage' = "Failed"
    /\ result' = "NoneNone"
    /\ UNCHANGED <<pdf, run, pageIdx, self_text, self_chunks, self_embeddings,
                   ids, store, reported, storeAtStart, prevDoneDoc>>
    /\ UNCHANGED chunkerVars

\* an exception raised by the vector store: while creating the client or the
\* collection (k = 0) or inside upsert after k records were written
FailStoring ==
    /\ stage = "Storing"
    /\ ids' = ChunkIds(Len(self_chunks))
    /\ \E k \in 0..Len(self_chunks) :
           store' = UpsertFrom(store, ids', self_embeddings, self_chunks, 1, k)
    /\ failedAt' = stage
    /\ stage' = "Failed"
    /\ result' = "NoneNone"
    /\ UNCHANGED <<pdf, run, pageIdx, self_text, self_chunks, self_embeddings,
                   reported, storeAtStart, prevDoneDoc>>
    /\ UNCHANGED chunkerVars

\* the caller calls process_pdf_and_store_in_chroma again, with any document
\* and the same db_path and collection_name
NewCall ==
    /\ stage \in {"Done", "Failed"}
    /\ run < MaxRuns
    /\ run' = run + 1
    /\ pdf' \in Docs
    /\ prevDoneDoc' = IF stage = "Done" THEN <<pdf>> ELSE <<>>
    /\ storeAtStart' = store
    /\ stage' = "Idle"
    /\ pageIdx' = 1
    /\ self_text' = <<>>
    /\ self_chunks' = <<>>
    /\ self_embeddings' = <<>>
    /\ ids' = <<>>
    /\ result' = "pending"
    /\ reported' = -1
    /\ failedAt' = "none"
    /\ UNCHANGED store
    /\ UNCHANGED chunkerVars

Next ==
    \/ OpenPdf
    \/ ExtractPage
    \/ ExtractDone
    \/ SplitChunks
    \/ EncodeChunks
    \/ StoreChunks
    \/ Fail
    \/ FailStoring
    \/ NewCall

Spec == Init /\ [][Next]_vars

\* ------------------------------------------------------------ helpers
Range(f) == {f[k] : k \in DOMAIN f}

RECURSIVE Concat(_)
Concat(ss) == IF ss = <<>> THEN <<>> ELSE Head(ss) \o Concat(Tail(ss))

\* the characters of s that are not whitespace, in order
NoWS(s) == SelectSeq(s, LAMBDA c : c \notin WS)

\* the last k characters of s (all of s when k >= len(s), none when k = 0)
LastChars(s, k) == SubSeq(s, Len(s) - Min(k, Len(s)) + 1, Len(s))

\* Python s[a:b] for 0 <= a <= b
PySlice(s, a, b) == SubSeq(s, a + 1, Min(b, Len(s)))

\* ------------------------------------------------------ claims, chunker
\* C1: overlap stitching, for every chunk_size > 0 and overlap >= 0: the
\* output has the length of the pre-stitch list, output[0] = init[0], and for
\* i > 0, with T the trimmed last `overlap` characters of init[i-1],
\* output[i] = init[i] if init[i] starts with T and trim(T + " " + init[i])
\* otherwise.
C1_OverlapStitching ==
    (pc = "done" /\ text # <<>>) =>
        /\ Len(final_chunks) = Len(initial_chunks)
        /\ \A k \in 1..Len(initial_chunks) :
               final_chunks[k] =
                   IF k = 1 THEN initial_chunks[1]
                   ELSE LET T == Strip(LastChars(initial_chunks[k - 1], overlap))
                        IN  IF StartsWith(initial_chunks[k], T)
                            THEN initial_chunks[k]
                            ELSE Strip(T \o <<" ">> \o initial_chunks[k])

\* C1 restricted to overlap > 0 (what the code does satisfy)
C1_PositiveOverlap == overlap > 0 => C1_OverlapStitching

C1_PositiveOverlapWitness ==
    /\ pc = "done"
    /\ overlap > 0
    /\ Len(final_chunks) >= 3
    /\ final_chunks[2] # initial_chunks[2]
    /\ final_chunks[3] = initial_chunks[3]

\* C2: every chunk of the pre-stitch list, and the chunk being accumulated,
\* has at most chunk_size characters.
C2_ChunkSizeBound ==
    /\ \A k \in DOMAIN initial_chunks : Len(initial_chunks[k]) <= chunk_size
    /\ Len(current_chunk) <= chunk_size

\* two sentences packed into one full chunk, followed by another chunk
C2_Witness ==
    /\ pc = "done"
    /\ Len(initial_chunks) >= 2
    /\ \E k \in DOMAIN initial_chunks :
           /\ Len(initial_chunks[k]) = chunk_size
           /\ " " \in Range(initial_chunks[k])

\* C3: for a non-empty text the pre-stitch chunks, concatenated in order,
\* have exactly the non-whitespace characters of the text, in the order of
\* the text, which is also the order of the sentences.
C3_NoTextLost ==
    (pc \in {"stitch", "done"} /\ text # <<>>) =>
        /\ NoWS(Concat(initial_chunks)) = NoWS(text)
        /\ NoWS(Concat(initial_chunks)) = NoWS(Concat(sentences))

\* several sentences, an oversized one among them, and whitespace dropped
C3_Witness ==
    /\ pc = "done"
    /\ Len(sentences) >= 2
    /\ Len(initial_chunks) >= 3
    /\ \E k \in DOMAIN sentences : Len(sentences[k]) > chunk_size
    /\ Len(NoWS(text)) < Len(text)
    /\ Len(NoWS(text)) >= 3

\* C4: in one iteration of the packing loop the sentence s is sliced iff
\* len(s) > chunk_size.  When sliced, the pre-stitch list becomes the old list,
\* then the flushed current_chunk (if non-empty), then the trimmed slices
\* s[k*chunk_size : (k+1)*chunk_size], k = 0, 1, ..., every slice chunk_size
\* wide except the last, and current_chunk becomes empty.  Otherwise s goes
\* whole into current_chunk.
C4_OversizedSentence ==
    [][(pc = "pack" /\ idx <= Len(sentences) /\ idx' = idx + 1) =>
        LET s == sentences[idx]
            base == IF current_chunk = <<>> THEN initial_chunks
                    ELSE initial_chunks \o <<Strip(current_chunk)>>
        IN  IF Len(s) > chunk_size
            THEN LET n == CHOOSE c \in 1..Len(s) :
                              c * chunk_size >= Len(s) /\ (c - 1) * chunk_size < Len(s)
                 IN  /\ current_chunk' = <<>>
                     /\ Len(initial_chunks') = Len(base) + n
                     /\ SubSeq(initial_chunks', 1, Len(base)) = base
                     /\ \A k \in 0..(n - 1) :
                            LET raw == PySlice(s, k * chunk_size, (k + 1) * chunk_size)
                            IN  /\ initial_chunks'[Len(base) + k + 1] = Strip(raw)
                                /\ k < n - 1 => Len(raw) = chunk_size
                                /\ k = n - 1 => Len(raw) \in 1..chunk_size
            ELSE /\ current_chunk' \in {s, current_chunk \o <<" ">> \o s}
                 /\ initial_chunks' \in {initial_chunks, base}
    ]_vars

\* a short sentence was flushed, then an oversized one sliced
C4_Witness ==
    /\ pc = "pack"
    /\ idx = 3
    /\ Len(sentences[1]) <= chunk_size
    /\ Len(sentences[2]) > chunk_size
    /\ current_chunk = <<>>
    /\ Len(initial_chunks) >= 3
    /\ initial_chunks[1] = sentences[1]

\* C9: no string of the pre-stitch list and no string of the returned list
\* is empty after trimming.
C9_NoEmptyChunk ==
    /\ \A k \in DOMAIN initial_chunks : Strip(initial_chunks[k]) # <<>>
    /\ \A k \in DOMAIN final_chunks : Strip(final_chunks[k]) # <<>>

\* ----------------------------------------------------- claims, pipeline
StageOrder == <<"Idle", "Extracting", "Chunking", "Embedding", "Storing", "Done">>

\* C5: within one call the stages are passed in the order Idle, Extracting,
\* Chunking, Embedding, Storing, Done; a stage is entered only with the
\* previous one completed and no failure recorded; a failure leads to Failed;
\* Done and Failed are left only by a new call, which starts at Idle.
C5_StageOrdering ==
    /\ [][/\ run' = run =>
                \/ stage' = stage
                \/ \E k \in 1..5 : stage = StageOrder[k] /\ stage' = StageOrder[k + 1]
                \/ stage \notin {"Done", "Failed"} /\ stage' = "Failed"
          /\ (run' = run /\ stage \in {"Done", "Failed"}) =>
                (stage' = stage /\ store' = store /\ result' = result)
          /\ run' # run => (stage \in {"Done", "Failed"} /\ stage' = "Idle")
         ]_vars
    /\ [](failedAt # "none" <=> stage = "Failed")
    /\ [](stage \in {"Chunking", "Embedding", "Storing", "Done"} => pageIdx > Len(pdf))
    /\ [](stage \in {"Storing", "Done"} => Len(self_embeddings) = Len(self_chunks))

\* a call that failed while embedding, after a call that reached Done
C5_Witness ==
    /\ run = 2
    /\ prevDoneDoc # <<>>
    /\ stage = "Failed"
    /\ failedAt = "Embedding"

\* C6: a call that failed while opening, extracting, chunking or embedding
\* left the collection as it was when the call began, and returned
\* (None, None); nothing reached the caller as an exception.
C6_FailureLeavesStore ==
    (stage = "Failed" /\ failedAt \in {"Idle", "Extracting", "Chunking", "Embedding"}) =>
        /\ store = storeAtStart
        /\ result = "NoneNone"
        /\ reported = -1

\* the second page failed to extract, with records of an earlier call stored
C6_Witness ==
    /\ stage = "Failed"
    /\ failedAt = "Extracting"
    /\ pageIdx = 2
    /\ Len(pdf) >= 2
    /\ Len(store) >= 2

C7Id(j) == <<"c", "h", "u", "n", "k", "_", DigitChars[j + 1]>>

\* C7: when a call completes, chunks, embeddings and upserted ids are equally
\* many (n), the ids are "chunk_0" .. "chunk_{n-1}" in chunk order, the record
\* with id "chunk_i" holds the embedding and the text of chunk i, and the
\* reported count is n.
C7_CrossStage ==
    stage = "Done" =>
        LET n == Len(self_chunks)
        IN  /\ Len(self_embeddings) = n
            /\ Len(ids) = n
            /\ reported = n
            /\ \A k \in 1..n :
                   /\ ids[k] = C7Id(k - 1)
                   /\ self_embeddings[k] = Embed(self_chunks[k])
                   /\ {j \in DOMAIN store : store[j].id = C7Id(k - 1)} # {}
                   /\ \A j \in DOMAIN store :
                          store[j].id = C7Id(k - 1) =>
                              /\ store[j].embedding = self_embeddings[k]
                              /\ store[j].document = self_chunks[k]

\* a completed call with several chunks into a collection that held records
C7_Witness ==
    /\ stage = "Done"
    /\ Len(self_chunks) >= 3
    /\ storeAtStart # <<>>
    /\ storeAtStart # store

\* C8: a call that completes on the document the previous, completed call
\* processed leaves the collection exactly as that previous call left it.
C8_RerunOverwrites ==
    (stage = "Done" /\ prevDoneDoc = <<pdf>>) => store = storeAtStart

C8_Witness ==
    /\ stage = "Done"
    /\ run = 2
    /\ prevDoneDoc = <<pdf>>
    /\ Len(store) >= 3

\* C10 as stated: after a completed call the collection holds exactly the
\* records of that call.
C10_OnlyThisRun ==
    stage = "Done" =>
        /\ Len(store) = Len(self_chunks)
        /\ \A j \in DOMAIN store : store[j].id \in Range(ids)

\* C10 amended: after a completed call with n chunks the collection holds
\* each record "chunk_0" .. "chunk_{n-1}" of that call exactly once, and
\* besides them exactly the records it held before under other ids, unchanged.
C10_StaleRecordsRemain ==
    stage = "Done" =>
        /\ \A k \in 1..Len(self_chunks) :
               Cardinality({j \in DOMAIN store : store[j].id = ids[k]}) = 1
        /\ \A j \in DOMAIN store :
               IF store[j].id \in Range(ids)
               THEN \E k \in 1..Len(self_chunks) :
                        store[j] = [id |-> ids[k], embedding |-> self_embeddings[k],
                                    document |-> self_chunks[k]]
               ELSE store[j] \in Range(storeAtStart)
        /\ \A r \in Range(storeAtStart) :
               r.id \notin Range(ids) => r \in Range(store)
        /\ Len(store) = Len(self_chunks)
               + Cardinality({j \in DOMAIN storeAtStart : storeAtStart[j].id \notin Range(ids)})

\* a completed call with fewer chunks than an earlier one: a stale record
C10_Witness ==
    /\ stage = "Done"
    /\ Len(self_chunks) >= 1
    /\ \E j \in DOMAIN store : store[j].id \notin Range(ids)
====
